---- MODULE Spec2Model ----
(***************************************************************************)
(* Ingestion job lifecycle of the Web-Aware RAG engine.                    *)
(*                                                                         *)
(*   main.py    FastAPI handlers /ingest-url, /query, /ingest-auto         *)
(*   worker.py  Celery task ingest_url_task                                *)
(*   utils.py   ingest_url_to_faiss (load / extend / save the FAISS index) *)
(*   models.py  tables ingestions (IngestionRecord) and query_logs         *)
(*                                                                         *)
(* The API handlers run on one asyncio event loop: a handler is atomic     *)
(* with respect to the other handlers between two awaits, never with       *)
(* respect to the Celery workers, which are separate processes.  Every     *)
(* database commit and every index load or save is a step of its own.      *)
(***************************************************************************)
EXTENDS Integers, Sequences, FiniteSets, TLC

\* ------------------------------------------------------------- bounds
MaxCalls == 2       \* client operations in one behaviour: HTTP requests, and
                    \* task messages put on the broker outside the API
MaxCsvRows == 2     \* rows of an uploaded CSV

URLs == {"a", "b"}          \* the URLs the clients use
Workers == {"w1", "w2"}     \* the Celery worker processes

\* ------------------------------------------------------------- values
\* A nullable column holds Null or Some(v).
Null == <<>>
Some(v) == <<v>>

Statuses == {"pending", "processing", "completed", "failed"}
Terminal == {"completed", "failed"}

\* Mutant of NewRecord: the record is inserted as already being processed.
NewRecordProcessing(u) ==
    [url |-> u, status |-> "processing", completed_at |-> Null,
     error_message |-> Null, chunk_count |-> Null]

\* IngestionRecord(url=url, status=IngestionStatus.pending): the other
\* columns are nullable and get no value at insert.
NewRecord(u) ==
    [url |-> u, status |-> "pending", completed_at |-> Null,
     error_message |-> Null, chunk_count |-> Null]

\* Mutant of UniqueOk: the url column without its unique constraint.
UniqueOkAlways(rows, u) == TRUE

\* url = Column(String, nullable=False, unique=True): the INSERT of a second
\* row with the same url raises IntegrityError at commit.
UniqueOk(rows, u) == \A i \in 1..Len(rows) : rows[i].url # u

\* db.query(IngestionRecord).filter_by(url=url).first(): the id of the first
\* row with that url, 0 for None.
FirstByUrl(rows, u) ==
    IF \E i \in 1..Len(rows) : rows[i].url = u
    THEN CHOOSE i \in 1..Len(rows) :
            /\ rows[i].url = u
            /\ \A j \in 1..Len(rows) : rows[j].url = u => i <= j
    ELSE 0

\* str(e) of the exceptions the try block of the task raises: ValueError(f"No
\* content found at {url}") of utils.py, the loader's own exception when the
\* fetch fails, and the database's when a commit fails.
StrOf(exc) ==
    IF exc = "ValueError" THEN "No content found at url"
    ELSE IF exc = "OperationalError" THEN "database error"
    ELSE "fetch failed"

AdapterErrors == {"ValueError", "FetchError"}

\* len(chunks): the page behind a URL splits into a fixed number of chunks.
ChunksOf(u) == IF u = "a" THEN 1 ELSE 2

\* csv.reader yields [] for a blank line and [cell, ...] for any other line.
Rows == {<<>>} \cup {<<u>> : u \in URLs}
SeqsUpTo(S, n) == UNION {[1..k -> S] : k \in 0..n}
Csvs == SeqsUpTo(Rows, MaxCsvRows)

\* urls = [row[0].strip() for row in reader if row]
RECURSIVE ParseCsv(_)
ParseCsv(rows) ==
    IF rows = <<>> THEN <<>>
    ELSE IF Head(rows) = <<>> THEN ParseCsv(Tail(rows))
    ELSE <<Head(rows)[1]>> \o ParseCsv(Tail(rows))

Distinct(s) == \A i, j \in 1..Len(s) : s[i] = s[j] => i = j

\* ------------------------------------------------------------- state
VARIABLES
    ingestions,     \* table ingestions: sequence of rows, id = position
    query_logs,     \* table query_logs: number of rows
    index,          \* the on-disk FAISS index at FAISS_INDEX_PATH
    queue,          \* broker: number of task messages waiting, per URL
    api,            \* the /ingest-url or /query handler on the event loop
    batch,          \* the /ingest-auto handler
    workers,        \* per worker process: the task execution in progress
    ncalls,         \* client operations started
    marked,         \* history: ids of the records a worker has set processing
    lost            \* history: URLs whose chunks a save has taken off the index

vars == <<ingestions, query_logs, index, queue, api, batch, workers, ncalls, marked,
          lost>>

NoIndex == [exists |-> FALSE, docs |-> [u \in URLs |-> 0]]

IdleApi == [kind |-> "none", pc |-> "idle", url |-> "none", rid |-> 0, resp |-> 0]

IdleBatch == [pc |-> "idle", urls |-> <<>>, i |-> 0, records |-> <<>>,
              pending |-> {}, sent |-> [u \in URLs |-> 0], base |-> 0,
              fresh |-> FALSE, resp |-> 0, queued_count |-> 0]

IdleWorker == [pc |-> "idle", url |-> "none", rec |-> 0, loaded |-> "none",
               idx |-> NoIndex, chunks |-> 0, exc |-> "none"]

Init ==
    /\ ingestions = <<>>
    /\ query_logs = 0
    /\ index = NoIndex
    /\ queue = [u \in URLs |-> 0]
    /\ api = IdleApi
    /\ batch = IdleBatch
    /\ workers = [w \in Workers |-> IdleWorker]
    /\ ncalls = 0
    /\ marked = {}
    /\ lost = {}

\* The event loop runs one handler at a time between awaits: /ingest-url has
\* no await at all, /ingest-auto awaits only file.read() (before it touches
\* anything) and asyncio.gather (after its loop).
ApiRunning == api.pc \in {"enqueue", "return"}
BatchRunning == batch.pc = "loop"
LoopFree == ~ApiRunning /\ ~BatchRunning

\* ingest_url_task.delay(url): one more message for url on the broker.
Delay(q, u) == [q EXCEPT ![u] = @ + 1]

\* Mutant of IngestUrlCreate: an upsert, which on a duplicate url resets the
\* existing record to pending and queues it again.
IngestUrlUpsert(u) ==
    /\ LoopFree
    /\ ncalls < MaxCalls
    /\ ncalls' = ncalls + 1
    /\ LET id == FirstByUrl(ingestions, u) IN
       /\ ingestions' = IF id = 0 THEN Append(ingestions, NewRecord(u))
                        ELSE [ingestions EXCEPT ![id] = NewRecord(u)]
       /\ api' = [IdleApi EXCEPT !.kind = "url", !.pc = "enqueue",
                                 !.url = u,
                                 !.rid = IF id = 0 THEN Len(ingestions) + 1 ELSE id]
    /\ UNCHANGED <<query_logs, index, queue, batch, workers, marked, lost>>

\* ------------------------------------------------------------- /ingest-url
\* main.py 29-34 and 45-47: insert and commit the record; an IntegrityError
\* (duplicate url) goes to the except branch: rollback, HTTPException(500).
IngestUrlCreate(u) ==
    /\ LoopFree
    /\ ncalls < MaxCalls
    /\ ncalls' = ncalls + 1
    /\ IF UniqueOk(ingestions, u)
       THEN /\ ingestions' = Append(ingestions, NewRecord(u))
            /\ api' = [IdleApi EXCEPT !.kind = "url", !.pc = "enqueue",
                                      !.url = u, !.rid = Len(ingestions) + 1]
       ELSE /\ ingestions' = ingestions
            /\ api' = [IdleApi EXCEPT !.kind = "url", !.pc = "done",
                                      !.url = u, !.resp = 500]
    /\ UNCHANGED <<query_logs, index, queue, batch, workers, marked, lost>>

\* main.py 36: task = ingest_url_task.delay(request.url)
IngestUrlEnqueue ==
    /\ api.kind = "url"
    /\ api.pc = "enqueue"
    /\ queue' = Delay(queue, api.url)
    /\ api' = [api EXCEPT !.pc = "return"]
    /\ UNCHANGED <<ingestions, query_logs, index, batch, workers, ncalls, marked, lost>>

\* main.py 38-43 and 49: the accepted response, with record.id.
IngestUrlReturn ==
    /\ api.kind = "url"
    /\ api.pc = "return"
    /\ api' = [api EXCEPT !.pc = "done", !.resp = 200]
    /\ UNCHANGED <<ingestions, query_logs, index, queue, batch, workers, ncalls, marked, lost>>

\* ------------------------------------------------------------- /query
\* Mutant of LoadLocalOk: a missing index loads as an empty one.
LoadLocalOkAlways(idx) == TRUE

\* FAISS.load_local(FAISS_INDEX_PATH, ...) raises when nothing was ever saved
\* at the path.
LoadLocalOk(idx) == idx.exists

\* main.py 58-84: load the index from disk, search, log the query; any
\* exception (index missing, embedding or search failure) is a 500 and
\* nothing is logged, db.add and db.commit coming after the search.
Query(searchOk) ==
    /\ LoopFree
    /\ ncalls < MaxCalls
    /\ ncalls' = ncalls + 1
    /\ IF LoadLocalOk(index) /\ searchOk
       THEN /\ query_logs' = query_logs + 1
            /\ api' = [IdleApi EXCEPT !.kind = "query", !.pc = "done",
                                      !.resp = 200]
       ELSE /\ query_logs' = query_logs
            /\ api' = [IdleApi EXCEPT !.kind = "query", !.pc = "done",
                                      !.resp = 500]
    /\ UNCHANGED <<ingestions, index, queue, batch, workers, marked, lost>>

\* ------------------------------------------------------------- /ingest-auto
\* main.py 129-131: except Exception catches whatever the try block raised,
\* the HTTPException(400) of line 103 included, and raises HTTPException(500).
ExceptHandler(raised) == 500

\* main.py 94-106: read and parse the CSV; no url raises HTTPException(400)
\* inside the try block.
IngestAutoStart(csv) ==
    /\ LoopFree
    /\ batch.pc \in {"idle", "done"}
    /\ ncalls < MaxCalls
    /\ ncalls' = ncalls + 1
    /\ LET urls == ParseCsv(csv) IN
       IF urls = <<>>
       THEN batch' = [IdleBatch EXCEPT !.pc = "done", !.base = Len(ingestions),
                                       !.resp = ExceptHandler(400)]
       ELSE batch' = [IdleBatch EXCEPT
                        !.pc = "loop", !.urls = urls, !.i = 1,
                        !.base = Len(ingestions),
                        !.fresh = \A k \in 1..Len(urls) : UniqueOk(ingestions, urls[k])]
    /\ UNCHANGED <<ingestions, query_logs, index, queue, api, workers, marked, lost>>

\* main.py 109-117, one iteration: insert and commit the record of the next
\* url, remember its id, create (not yet run) the coroutine that enqueues it.
\* An IntegrityError leaves the loop for the except branch: db.rollback() has
\* nothing to undo, every earlier record being committed, and the coroutines
\* are never awaited.
IngestAutoCreate ==
    /\ batch.pc = "loop"
    /\ LET u == batch.urls[batch.i] IN
       IF UniqueOk(ingestions, u)
       THEN /\ ingestions' = Append(ingestions, NewRecord(u))
            /\ batch' = [batch EXCEPT
                  !.records = Append(@, Len(ingestions) + 1),
                  !.i = @ + 1,
                  !.pc = IF batch.i = Len(batch.urls) THEN "gather" ELSE "loop",
                  !.pending = IF batch.i = Len(batch.urls)
                              THEN 1..Len(batch.urls) ELSE {}]
       ELSE /\ ingestions' = ingestions
            /\ batch' = [batch EXCEPT !.pc = "done", !.resp = ExceptHandler(500)]
    /\ UNCHANGED <<query_logs, index, queue, api, workers, ncalls, marked, lost>>

\* Mutant of IngestAutoEnqueue: the coroutine ends without a message sent.
IngestAutoEnqueueLost(k) ==
    /\ batch.pc = "gather"
    /\ k \in batch.pending
    /\ batch' = [batch EXCEPT !.pending = @ \ {k}]
    /\ UNCHANGED <<ingestions, query_logs, index, queue, api, workers, ncalls, marked, lost>>

\* main.py 117 and 120: asyncio.gather runs each ingest_url_task.delay(url) in
\* a thread of the default executor, in any order, while the event loop is
\* free for other handlers.
IngestAutoEnqueue(k) ==
    /\ batch.pc = "gather"
    /\ k \in batch.pending
    /\ queue' = Delay(queue, batch.urls[k])
    /\ batch' = [batch EXCEPT !.pending = @ \ {k},
                              !.sent[batch.urls[k]] = @ + 1]
    /\ UNCHANGED <<ingestions, query_logs, index, api, workers, ncalls, marked, lost>>

\* main.py 120-127 and 133: gather is done, the handler gets the loop back and
\* answers with queued_count = len(urls) and the record ids.
IngestAutoReturn ==
    /\ batch.pc = "gather"
    /\ batch.pending = {}
    /\ ~ApiRunning
    /\ batch' = [batch EXCEPT !.pc = "done", !.resp = 200,
                              !.queued_count = Len(batch.urls)]
    /\ UNCHANGED <<ingestions, query_logs, index, queue, api, workers, ncalls, marked, lost>>

\* ------------------------------------------------------------- broker
\* A task message for url reaches the broker without a request of the API:
\* a message delivered again (at-least-once delivery) or a caller that calls
\* ingest_url_task.delay(url) itself.
ExternalEnqueue(u) ==
    /\ ncalls < MaxCalls
    /\ ncalls' = ncalls + 1
    /\ queue' = Delay(queue, u)
    /\ UNCHANGED <<ingestions, query_logs, index, api, batch, workers, marked, lost>>

\* ------------------------------------------------------------- worker
\* The UPDATE a commit flushes for the session's record: the columns in
\* fields, nothing else.
UpdateRow(rows, id, fields) ==
    [rows EXCEPT ![id] = [c \in DOMAIN @ |->
                            IF c \in DOMAIN fields THEN fields[c] ELSE @[c]]]

\* worker.py 14-16: a worker takes a message for url and looks its record up.
\* The session keeps the row as loaded (its status included).
TaskStart(w, u) ==
    /\ workers[w].pc = "idle"
    /\ queue[u] > 0
    /\ queue' = [queue EXCEPT ![u] = @ - 1]
    /\ LET id == FirstByUrl(ingestions, u) IN
       workers' = [workers EXCEPT ![w] =
            [IdleWorker EXCEPT !.pc = "mark", !.url = u, !.rec = id,
                 !.loaded = IF id = 0 THEN "none" ELSE ingestions[id].status]]
    /\ UNCHANGED <<ingestions, query_logs, index, api, batch, ncalls, marked, lost>>

\* Mutant of TaskMarkProcessing: record.status is assigned without the test
\* "if record", which raises on the None of a URL that has no record.
TaskMarkProcessingUnguarded(w) ==
    /\ workers[w].pc = "mark"
    /\ LET id == workers[w].rec IN
       IF id # 0 /\ workers[w].loaded # "processing"
       THEN /\ ingestions' = UpdateRow(ingestions, id, [status |-> "processing"])
            /\ marked' = marked \cup {id}
       ELSE UNCHANGED <<ingestions, marked>>
    /\ IF workers[w].rec = 0
       THEN workers' = [workers EXCEPT ![w].pc = "except",
                                       ![w].exc = "AttributeError"]
       ELSE workers' = [workers EXCEPT ![w].pc = "ingest", ![w].loaded = "none"]
    /\ UNCHANGED <<query_logs, index, queue, api, batch, ncalls, lost>>

\* worker.py 18-20: record.status = processing; db.commit().  The unit of work
\* emits an UPDATE only for an attribute whose value differs from the loaded
\* one, so a record loaded as processing is left as the database has it.
TaskMarkProcessing(w) ==
    /\ workers[w].pc = "mark"
    /\ LET id == workers[w].rec IN
       IF id # 0 /\ workers[w].loaded # "processing"
       THEN /\ ingestions' = UpdateRow(ingestions, id, [status |-> "processing"])
            /\ marked' = marked \cup {id}
       ELSE UNCHANGED <<ingestions, marked>>
    /\ workers' = [workers EXCEPT ![w].pc = "ingest", ![w].loaded = "none"]
    /\ UNCHANGED <<query_logs, index, queue, api, batch, ncalls, lost>>

\* utils.py 11-25: fetch and split the page, then load the index if the path
\* exists.  The fetch raises, or returns no document (ValueError), or the
\* chunks are ready and the index as it is on disk now is in memory.
IngestLoad(w, exc) ==
    /\ workers[w].pc = "ingest"
    /\ IF exc = "none"
       THEN workers' = [workers EXCEPT ![w].pc = "save", ![w].idx = index,
                                       ![w].chunks = ChunksOf(workers[w].url)]
       ELSE workers' = [workers EXCEPT ![w].pc = "except", ![w].exc = exc]
    /\ UNCHANGED <<ingestions, query_logs, index, queue, api, batch, ncalls, marked, lost>>

\* Mutant of AddDocuments: the chunks of a URL replace the ones the index had
\* for it (an idempotent adapter).
AddDocumentsReplace(idx, u, n) ==
    [exists |-> TRUE, docs |-> [idx.docs EXCEPT ![u] = n]]

\* utils.py 23-25: the index in memory with the chunks added (a new index of
\* the chunks alone when the path did not exist).
AddDocuments(idx, u, n) ==
    [exists |-> TRUE, docs |-> [idx.docs EXCEPT ![u] = @ + n]]

\* Mutant of IngestSave: the adapter returns without writing the index to disk.
IngestSaveSkipped(w) ==
    /\ workers[w].pc = "save"
    /\ workers' = [workers EXCEPT ![w].pc = "complete", ![w].idx = NoIndex]
    /\ UNCHANGED <<ingestions, query_logs, index, queue, api, batch, ncalls, marked, lost>>

\* Mutant of IngestSave: the save adds the chunks to the index as it is on
\* disk at the save, not to the copy the execution loaded.
IngestSaveMerged(w) ==
    /\ workers[w].pc = "save"
    /\ index' = AddDocuments(index, workers[w].url, workers[w].chunks)
    /\ lost' = lost \cup {u \in URLs : index'.docs[u] < index.docs[u]}
    /\ workers' = [workers EXCEPT ![w].pc = "complete", ![w].idx = NoIndex]
    /\ UNCHANGED <<ingestions, query_logs, queue, api, batch, ncalls, marked>>

\* utils.py 27-28: faiss_index.save_local(index_path) writes the index in
\* memory over the one on disk; return len(chunks).
IngestSave(w) ==
    /\ workers[w].pc = "save"
    /\ index' = AddDocuments(workers[w].idx, workers[w].url, workers[w].chunks)
    /\ lost' = lost \cup {u \in URLs : index'.docs[u] < index.docs[u]}
    /\ workers' = [workers EXCEPT ![w].pc = "complete", ![w].idx = NoIndex]
    /\ UNCHANGED <<ingestions, query_logs, queue, api, batch, ncalls, marked>>

\* worker.py 26-31 and 40: status completed and chunk_count, committed; the
\* task returns.
TaskComplete(w) ==
    /\ workers[w].pc = "complete"
    /\ LET id == workers[w].rec IN
       IF id # 0
       THEN ingestions' = UpdateRow(ingestions, id,
                [status |-> "completed", chunk_count |-> Some(workers[w].chunks)])
       ELSE ingestions' = ingestions
    /\ workers' = [workers EXCEPT ![w] = IdleWorker]
    /\ UNCHANGED <<query_logs, index, queue, api, batch, ncalls, marked, lost>>

\* Mutant of TaskFail: the except branch raises again without the update.
TaskFailNoCommit(w) ==
    /\ workers[w].pc = "except"
    /\ workers' = [workers EXCEPT ![w].pc = "raise"]
    /\ UNCHANGED <<ingestions, query_logs, index, queue, api, batch, ncalls, marked, lost>>

\* worker.py 33-37: status failed and error_message = str(e), committed.
TaskFail(w) ==
    /\ workers[w].pc = "except"
    /\ LET id == workers[w].rec IN
       IF id # 0
       THEN ingestions' = UpdateRow(ingestions, id,
                [status |-> "failed", error_message |-> Some(StrOf(workers[w].exc))])
       ELSE ingestions' = ingestions
    /\ workers' = [workers EXCEPT ![w].pc = "raise"]
    /\ UNCHANGED <<query_logs, index, queue, api, batch, ncalls, marked, lost>>

\* worker.py 38-40: raise; the exception leaves the task and the dispatcher
\* records the task as failed.
TaskRaise(w) ==
    /\ workers[w].pc = "raise"
    /\ workers' = [workers EXCEPT ![w] = IdleWorker]
    /\ UNCHANGED <<ingestions, query_logs, index, queue, api, batch, ncalls, marked, lost>>

\* ------------------------------------------------------------- specification
ApiStep ==
    \/ \E u \in URLs : IngestUrlCreate(u)
    \/ IngestUrlEnqueue
    \/ IngestUrlReturn
    \/ \E searchOk \in BOOLEAN : Query(searchOk)
    \/ \E csv \in Csvs : IngestAutoStart(csv)
    \/ IngestAutoCreate
    \/ \E k \in 1..MaxCsvRows : IngestAutoEnqueue(k)
    \/ IngestAutoReturn

WorkerStep(w) ==
    \/ \E u \in URLs : TaskStart(w, u)
    \/ TaskMarkProcessing(w)
    \/ \E exc \in AdapterErrors \cup {"none"} : IngestLoad(w, exc)
    \/ IngestSave(w)
    \/ TaskComplete(w)
    \/ TaskFail(w)
    \/ TaskRaise(w)

Next ==
    \/ ApiStep
    \/ \E w \in Workers : WorkerStep(w)
    \/ \E u \in URLs : ExternalEnqueue(u)

Spec == Init /\ [][Next]_vars

\* The job lifecycle alone: /ingest-url requests, the broker and the workers.
LifecycleNext ==
    \/ \E u \in URLs : IngestUrlCreate(u)
    \/ IngestUrlEnqueue
    \/ IngestUrlReturn
    \/ \E w \in Workers : WorkerStep(w)
    \/ \E u \in URLs : ExternalEnqueue(u)

\* The workers are processes of their own and keep running: a task message on
\* the broker is taken by an idle worker, and every step of a task execution
\* (commit, adapter call that returns or raises) is eventually taken.
FairSpec ==
    /\ Init
    /\ [][LifecycleNext]_vars
    /\ \A w \in Workers : WF_vars(WorkerStep(w))

\* A commit of the task fails (worker.py 20, 29 or 37: the database refuses
\* the flush or the COMMIT).  Session.commit() rolls its transaction back
\* before it raises, so nothing of the transition is written and the session
\* can be used again.  Raised in the try block, the error enters the except
\* branch; raised by the commit of the except branch, it leaves the task.
CommitFails(w) ==
    /\ workers[w].pc \in {"mark", "complete", "except"}
    /\ workers[w].rec # 0
    /\ workers' = IF workers[w].pc = "except"
                  THEN [workers EXCEPT ![w].pc = "raise"]
                  ELSE [workers EXCEPT ![w].pc = "except",
                                       ![w].exc = "OperationalError",
                                       ![w].loaded = "none"]
    /\ UNCHANGED <<ingestions, query_logs, index, queue, api, batch, ncalls, marked, lost>>

\* The job lifecycle with a database that can refuse the commits of the task.
DbFaultNext ==
    \/ LifecycleNext
    \/ \E w \in Workers : CommitFails(w)

DbFaultSpec == Init /\ [][DbFaultNext]_vars

\* ------------------------------------------------------------- claims
HasRecord(u) == \E i \in 1..Len(ingestions) : ingestions[i].url = u

\* /ingest-url has created the record of u and has put its task on the broker.
ApiEnqueued(u) == api.kind = "url" /\ api.url = u /\ api.pc = "return"

Finished(u) ==
    \E i \in 1..Len(ingestions) :
        ingestions[i].url = u /\ ingestions[i].status \in Terminal

C2_TerminalIsFinal ==
    [][\A i \in 1..Len(ingestions) :
          ingestions[i].status \in Terminal
              => ingestions'[i].status = ingestions[i].status]_vars

\* The step in which worker w commits the failure of an execution for a URL
\* that has a record (worker.py 33-37).
FailCommit(w) ==
    /\ workers[w].pc = "except"
    /\ workers'[w].pc # "except"
    /\ workers[w].rec # 0

\* C3 (as claimed): an execution whose adapter call raised leaves its record
\* failed, with a non-empty error_message and chunk_count null.
C3_FailureLeavesFailed ==
    [][\A w \in Workers :
          FailCommit(w) =>
              LET r == ingestions'[workers[w].rec] IN
              /\ r.status = "failed"
              /\ r.error_message # Null
              /\ r.error_message # Some("")
              /\ r.chunk_count = Null]_vars

UniqueUrls ==
    \A i, j \in 1..Len(ingestions) :
        ingestions[i].url = ingestions[j].url => i = j

\* The step that starts a /ingest-url request for a URL that has a record.
DuplicateIngestUrl == \E u \in URLs : IngestUrlCreate(u) /\ HasRecord(u)

\* C4: there is never more than one record per URL, and a /ingest-url request
\* for a URL that has a record ends at once in a 500, with the table and the
\* broker as they were.
C4_UrlUnique ==
    [][/\ UniqueUrls'
       /\ DuplicateIngestUrl =>
            /\ api'.pc = "done"
            /\ api'.resp = 500
            /\ ingestions' = ingestions
            /\ queue' = queue]_vars

\* C4 witness: a /ingest-url request refused for a URL that has its record.
C4_Witness ==
    /\ api.kind = "url" /\ api.pc = "done" /\ api.resp = 500
    /\ HasRecord(api.url)

\* A /ingest-auto request whose CSV holds pairwise distinct URLs, none of
\* which had a record when the request started.
BatchOfNew == batch.urls # <<>> /\ batch.fresh /\ Distinct(batch.urls)

BatchRecordsOk(n) ==
    /\ Len(batch.records) = n
    /\ \A k \in 1..n :
          /\ batch.records[k] = batch.base + k
          /\ batch.records[k] <= Len(ingestions)
          /\ ingestions[batch.records[k]].url = batch.urls[k]

BatchOfNewOk ==
    BatchOfNew =>
        /\ batch.pc = "loop" => BatchRecordsOk(batch.i - 1)
        /\ batch.pc \in {"gather", "done"} => BatchRecordsOk(Len(batch.urls))
        /\ batch.pc = "done" =>
              /\ batch.resp = 200
              /\ batch.queued_count = Len(batch.urls)
              /\ \A u \in URLs :
                    batch.sent[u] =
                        Cardinality({k \in 1..Len(batch.urls) : batch.urls[k] = u})

\* C5: a /ingest-auto request with N distinct URLs that have no record creates
\* exactly N records, each inserted as pending, enqueues one task per URL and
\* answers 200 with queued_count = N and the N record ids.
C5_BatchOfNew ==
    [][/\ BatchOfNewOk'
       /\ (batch.pc = "loop" /\ Len(ingestions') # Len(ingestions)) =>
            /\ Len(ingestions') = Len(ingestions) + 1
            /\ ingestions'[Len(ingestions')].status = "pending"
       /\ (BatchOfNew /\ batch.pc = "loop" /\ batch'.pc # "loop") =>
            /\ batch'.pc = "gather"
            /\ Len(ingestions') = batch.base + Len(batch.urls)]_vars

\* C5 witness: an accepted batch of two new URLs.
C5_Witness ==
    /\ BatchOfNew
    /\ Len(batch.urls) = 2
    /\ batch.pc = "done" /\ batch.resp = 200

\* C6 (as claimed): when a create of the batch fails, the table holds the
\* records it held before the request.
C6_BatchAbortRestores ==
    [][(batch.pc = "loop" /\ batch'.pc = "done") =>
            /\ batch'.resp = 500
            /\ Len(ingestions') = batch.base]_vars

\* C7 (as claimed): a CSV that yields no URL is answered with 400.
C7_EmptyCsvIs400 ==
    (batch.pc = "done" /\ batch.urls = <<>>) => batch.resp = 400

\* C8: a /query while the index was never saved answers 500 and adds no row to
\* query_logs.
C8_QueryWithoutIndex ==
    [][((\E searchOk \in BOOLEAN : Query(searchOk)) /\ ~index.exists) =>
            /\ api'.pc = "done"
            /\ api'.resp = 500
            /\ query_logs' = query_logs]_vars

\* C8 witness: a /query answered 500, the index still missing.
C8_Witness ==
    /\ api.kind = "query" /\ api.pc = "done" /\ api.resp = 500
    /\ ~index.exists
    /\ query_logs = 0

\* C9 (as claimed): when a successful /ingest-url returns its response, its
\* record is pending.
C9_PendingAtReturn ==
    [][(api.kind = "url" /\ api.pc = "return" /\ api'.pc = "done") =>
            ingestions'[api.rid].status = "pending"]_vars

\* C9 (amended): from its commit on, and so when the response is returned, the
\* record of a /ingest-url request exists and is pending unless a worker has
\* committed processing for it.
C9_PendingUntilMarked ==
    (api.kind = "url" /\ api.rid # 0) =>
        /\ api.rid <= Len(ingestions)
        /\ ingestions[api.rid].url = api.url
        /\ ingestions[api.rid].status = "pending" \/ api.rid \in marked

\* C9 witness: a response returned while the record is still pending.
C9_Witness ==
    /\ api.kind = "url" /\ api.pc = "done" /\ api.resp = 200
    /\ ingestions[api.rid].status = "pending"

\* C10: a record is created by an API handler, as pending with completed_at,
\* error_message and chunk_count null; an existing record is changed by worker
\* steps only, never by an API handler, and never back to pending.
C10_Ownership ==
    [][/\ Len(ingestions') >= Len(ingestions)
       /\ \A i \in 1..Len(ingestions') :
            IF i > Len(ingestions)
            THEN /\ workers' = workers
                 /\ api' # api \/ batch' # batch
                 /\ ingestions'[i].status = "pending"
                 /\ ingestions'[i].completed_at = Null
                 /\ ingestions'[i].error_message = Null
                 /\ ingestions'[i].chunk_count = Null
            ELSE ingestions'[i] # ingestions[i] =>
                 /\ workers' # workers
                 /\ api' = api
                 /\ batch' = batch
                 /\ ingestions'[i].url = ingestions[i].url
                 /\ ingestions'[i].status # "pending"]_vars

\* C10 witness: the record a /ingest-url request created, completed by a
\* worker, and a second call served.
C10_Witness ==
    /\ api.kind = "url" /\ api.pc = "done" /\ api.resp = 200
    /\ ingestions[api.rid].status = "completed"
    /\ ingestions[api.rid].chunk_count # Null
    /\ ncalls = 2

\* The step in which the execution of worker w loads the index (utils.py 21-23)
\* and the step in which it saves it (utils.py 27).
AdapterLoad(w) == workers[w].pc = "ingest" /\ workers'[w].pc = "save"
AdapterSave(w) == workers[w].pc = "save" /\ workers'[w].pc = "complete"

\* C11: processing brackets the adapter call: whenever a task execution that
\* found the record of its URL loads or saves the vector index, the committed
\* status of that record is processing.
C11_ProcessingBrackets ==
    [][\A w \in Workers :
          ((AdapterLoad(w) \/ AdapterSave(w)) /\ workers[w].rec # 0)
              => ingestions[workers[w].rec].status = "processing"]_vars

\* The step in which the exception leaves the task of worker w and the
\* dispatcher sees the task as failed (worker.py 38).
Reraise(w) == workers[w].pc = "raise" /\ workers'[w].pc = "idle"

\* C12: failure ordering: the except branch always ends in the re-raise, and
\* when the error of an execution that found a record is re-raised, the record
\* reads failed and has its error_message.
C12_FailedBeforeRaise ==
    [][\A w \in Workers :
          /\ (workers[w].pc = "except" /\ workers'[w] # workers[w])
                => workers'[w].pc = "raise"
          /\ (Reraise(w) /\ workers[w].rec # 0)
                => /\ ingestions[workers[w].rec].status = "failed"
                   /\ ingestions[workers[w].rec].error_message # Null]_vars

Completed(u) ==
    \E i \in 1..Len(ingestions) :
        ingestions[i].url = u /\ ingestions[i].status = "completed"

AllIdle == \A w \in Workers : workers[w].pc = "idle"

\* C13: lost update on the index: the index on disk changes only by the save
\* of a task execution, and that save writes the copy the execution loaded
\* plus its own chunks, whatever other executions have saved since the load;
\* so two executions that both load before either saves leave the chunks of
\* one of them only (C13_Witness).
C13_SaveOverwrites ==
    [][index' # index
          => \E w \in Workers :
                /\ AdapterSave(w)
                /\ index' = AddDocuments(workers[w].idx, workers[w].url,
                                         workers[w].chunks)]_vars

\* C13 witness: both executions have returned, both records are completed,
\* and the index on disk holds the chunks of one URL and none of the other.
C13_Witness ==
    /\ AllIdle
    /\ \E u, v \in URLs :
          /\ u # v
          /\ Completed(u) /\ Completed(v)
          /\ index.exists
          /\ index.docs[u] = 0
          /\ index.docs[v] = ChunksOf(v)

\* A /query request is served in this step.
QueryStep == \E searchOk \in BOOLEAN : Query(searchOk)

\* C14 as stated: every /query that starts after a record has reached
\* completed loads an index that contains the chunks of that record.
C14_QuerySeesCompleted ==
    [][QueryStep
          => \A u \in URLs :
                Completed(u) => (index.exists /\ index.docs[u] >= ChunksOf(u))]_vars

\* C14 amended: every /query that starts after a record has reached completed
\* finds the index on disk and loads it as it is then; it contains the chunks
\* of that record unless the save of another execution has taken them off the
\* index since (the lost update of C13).
C14_QuerySeesUnlessOverwritten ==
    [][QueryStep
          => \A u \in URLs :
                Completed(u)
                    => /\ index.exists
                       /\ index.docs[u] >= ChunksOf(u) \/ u \in lost]_vars

\* C14 witness: a /query served when two records are completed, the chunks of
\* one in the index it loaded and the chunks of the other overwritten.
C14_Witness ==
    /\ api.kind = "query" /\ api.pc = "done" /\ api.resp = 200
    /\ AllIdle
    /\ \E u, v \in URLs :
          /\ Completed(u) /\ index.docs[u] >= ChunksOf(u) /\ u \notin lost
          /\ Completed(v) /\ index.docs[v] = 0 /\ v \in lost

\* C15: a task execution for a URL that has no record: the session's record
\* is None.  No step of it changes the table of records, the commit of
\* processing is skipped without an error, the adapter is called and its save
\* writes the loaded index plus the chunks as for any URL, the only errors
\* are the adapter's own, and after the save the task returns.
C15_NoRecordTask ==
    [][\A w \in Workers :
          (workers[w].pc # "idle" /\ workers[w].rec = 0 /\ workers'[w] # workers[w])
              => /\ ingestions' = ingestions
                 /\ workers[w].pc = "mark" => workers'[w].pc = "ingest"
                 /\ workers'[w].pc = "except" => workers'[w].exc \in AdapterErrors
                 /\ AdapterSave(w)
                       => index' = AddDocuments(workers[w].idx, workers[w].url,
                                                ChunksOf(workers[w].url))
                 /\ workers[w].pc = "complete" => workers'[w].pc = "idle"]_vars

\* C15 witness: a URL without a record whose chunks are in the index, the
\* task that put them there finished.
C15_Witness ==
    /\ AllIdle
    /\ \E u \in URLs :
          /\ ~HasRecord(u)
          /\ index.exists
          /\ index.docs[u] = ChunksOf(u)

\* C16: the adapter is not idempotent: a call whose load sees the index as
\* the previous call saved it (sequential calls) leaves the index with
\* ChunksOf(url) more chunks of its URL than before and the other URLs'
\* chunks as they were, and the value it returns, which the task commits as
\* chunk_count, is ChunksOf(url) each time.
C16_IndexGrowsEachCall ==
    [][\A w \in Workers :
          /\ (AdapterSave(w) /\ workers[w].idx = index)
                => /\ index'.exists
                   /\ \A u \in URLs :
                         index'.docs[u] =
                             index.docs[u] + (IF u = workers[w].url
                                              THEN ChunksOf(u) ELSE 0)
          /\ (workers[w].pc = "complete" /\ workers'[w].pc = "idle"
                  /\ workers[w].rec # 0)
                => ingestions'[workers[w].rec].chunk_count
                       = Some(ChunksOf(workers[w].url))]_vars

\* C16 witness: two executions for one URL have run one after the other from
\* an empty index: the index holds twice the chunks, the record the count of
\* one call.
C16_Witness ==
    /\ AllIdle
    /\ lost = {}
    /\ \E i \in 1..Len(ingestions) :
          /\ ingestions[i].status = "completed"
          /\ ingestions[i].chunk_count = Some(ChunksOf(ingestions[i].url))
          /\ index.docs[ingestions[i].url] = 2 * ChunksOf(ingestions[i].url)

\* The commit of the completed transition of worker w fails in this step.
CompletedCommitFails(w) ==
    workers[w].pc = "complete" /\ workers'[w].pc = "except"

\* The execution of worker w has saved the index and failed afterwards.
FailedAfterSave(w) ==
    workers[w].pc \in {"except", "raise"} /\ workers[w].chunks # 0

\* C17: when the commit of the completed transition fails after the adapter
\* has saved the index, the index on disk is left as it is (the write is not
\* undone, then or in the except branch) and the committed status of the
\* record is not completed, then or after the except branch.
C17_CommitFailureAfterSave ==
    [][\A w \in Workers :
          ((CompletedCommitFails(w) \/ FailedAfterSave(w))
                /\ workers'[w] # workers[w])
              => /\ index' = index
                 /\ ingestions'[workers[w].rec].status # "completed"]_vars

\* C18: completed_at is set on, and only on, the transition into completed or
\* failed: it is null in a pending or processing record and not null in a
\* completed or failed one.
C18_CompletedAtSet ==
    \A i \in 1..Len(ingestions) :
        (ingestions[i].status \in Terminal) <=> (ingestions[i].completed_at # Null)

\* A task message for u is on the broker or a worker is executing one.
HasTask(u) ==
    \/ queue[u] > 0
    \/ \E w \in Workers : workers[w].pc # "idle" /\ workers[w].url = u

\* A request of the API that has u among its URLs is in progress and has yet
\* to enqueue the task of u.
RequestWillEnqueue(u) ==
    \/ api.kind = "url" /\ api.pc = "enqueue" /\ api.url = u
    \/ batch.pc = "loop" /\ \E k \in 1..Len(batch.urls) : batch.urls[k] = u
    \/ batch.pc = "gather" /\ \E k \in batch.pending : batch.urls[k] = u

\* C19: no orphaned pending record: every record with status pending has a
\* task for its URL on the broker or in execution, or belongs to a request
\* still in progress that will enqueue it.
C19_NoOrphanPending ==
    \A i \in 1..Len(ingestions) :
        ingestions[i].status = "pending"
            => HasTask(ingestions[i].url) \/ RequestWillEnqueue(ingestions[i].url)

====
